---- MODULE Spec2Model ----
(***************************************************************************)
(* sqlalchemy_fsm: the per-type state machine registry (state_machine.py)  *)
(* and the transition descriptor with its class-bound and instance-bound   *)
(* views (transition.py).                                                  *)
(*                                                                         *)
(* One record type (the owner class), one record of that type, and a few   *)
(* threads that access annotated attributes of the type and call the       *)
(* operations of the views they get.  Every step that reads or writes      *)
(* shared data (the handle stored on the type, the registry's lock, its    *)
(* states dict and its transitions list) is one action, so the threads     *)
(* interleave between those steps.                                         *)
(***************************************************************************)
EXTENDS Integers, Sequences, FiniteSets, TLC

\* ------------------------------------------------------------------ bounds
MaxAccess == 2
MaxCalls == 2
MaxFsmFields == 2

\* The threads of the host application that use the record type.
Threads == {"t1", "t2"}

NoThread == "none"

\* ------------------------------------------------------- declared metadata
WILDCARD == "*"

Labels == {"draft", "review", "published", "archived"}

\* The value the record's state column holds when the run starts: a source
\* of publish and, by the wildcard, of archive, but not of submit.
RawValues == {"review"}

Guards == {"is_owner", "is_reviewed"}

\* transition(source, target, conditions)(subject): the decorator picks the
\* bound class from the kind of the decorated subject.
BadMeta == [sources |-> <<>>, target |-> "None", conditions |-> <<>>,
            bound_cls |-> "NotImplementedError"]

inner_transition(source, target, conditions, subject) ==
    IF subject = "function"
    THEN [sources |-> source, target |-> target, conditions |-> conditions,
          bound_cls |-> "BoundFSMFunction"]
    ELSE IF subject = "class"
    THEN [sources |-> source, target |-> target, conditions |-> conditions,
          bound_cls |-> "BoundFSMClass"]
    ELSE BadMeta

\* The annotated attributes of the record type.
DeclNames == {"submit", "publish", "archive"}

Meta(d) ==
    CASE d = "submit"  -> inner_transition(<<"draft">>, "review",
                                           <<"is_owner">>, "function")
      [] d = "publish" -> inner_transition(<<"draft", "review">>, "published",
                                           <<"is_owner", "is_reviewed">>, "class")
      [] d = "archive" -> inner_transition(<<WILDCARD>>, "archived",
                                           <<>>, "function")
      [] OTHER         -> BadMeta

\* util.is_valid_literal_state: a state label that is not the wildcard.
is_valid_literal_state(a_state) ==
    a_state \in Labels /\ a_state # WILDCARD

Range(s) == {s[i] : i \in 1..Len(s)}

\* ------------------------------------------------------------------- state
VARIABLES
    fsm_fields, \* how many columns of the record type are FSMField columns
    raw,        \* the record's value of the state column
    handle,     \* owner._sa_fsm_sqlalchemy_handle: 0 (unset) or a registry id
    machines,   \* every FiniteStateMachine constructed so far, by id
    th,         \* each thread's position and locals inside __get__
    nAccess,    \* attribute accesses started so far
    returned,   \* history: <<registry, label, State returned, access>> of
                \* every register_state call
    calls,      \* history: handler invocations
    setup_errors,   \* history: accesses that ended with SetupError
    last        \* the call that completed in the latest step, if one did

vars == <<fsm_fields, raw, handle, machines, th, nAccess, returned, calls,
          setup_errors, last>>

\* Arguments handed to is_: a Python value with its type.
NoValue == [type |-> "none", repr |-> "none"]

IsArgs ==
    {[type |-> "bool", repr |-> "True"], [type |-> "bool", repr |-> "False"],
     [type |-> "str", repr |-> "published"]}

\* Outcomes of the guards for one call: the set of guards that return true.
GuardOutcomes == {{}, {"is_owner"}, {"is_reviewed"}, Guards}

IdleThread ==
    [pc |-> "idle", acc |-> 0, decl |-> "none", inst |-> FALSE, root |-> 0,
     i |-> 0]

NoCall ==
    [op |-> "none", decl |-> "none", holds |-> {}, value |-> NoValue,
     outcome |-> "none", result |-> "none", warnings |-> <<>>, root |-> 0,
     rawBefore |-> "none", rawAfter |-> "none",
     callsBefore |-> 0, callsAfter |-> 0,
     acc |-> 0, evaluated |-> <<>>, label |-> "none", state |-> <<>>,
     statesBefore |-> <<>>, statesAfter |-> <<>>]

Init ==
    /\ fsm_fields \in 0..MaxFsmFields
    /\ raw \in RawValues
    /\ handle = 0
    /\ machines = <<>>
    /\ th = [t \in Threads |-> IdleThread]
    /\ nAccess = 0
    /\ returned = {}
    /\ calls = <<>>
    /\ setup_errors = 0
    /\ last = NoCall

\* ------------------------------------------------- state_machine.py: setup
\* find_fsm_column(table_class): the FSMField columns of the type; exactly
\* one is required.
find_fsm_column_AcceptFirst(n) ==
    IF n = 0
    THEN [exc |-> "SetupError", column |-> "none"]
    ELSE [exc |-> "none", column |-> "fsm_field_1"]

find_fsm_column(n) ==
    IF n = 0
    THEN [exc |-> "SetupError", column |-> "none"]
    ELSE IF n > 1
    THEN [exc |-> "SetupError", column |-> "none"]
    ELSE [exc |-> "none", column |-> "fsm_field_1"]

\* FiniteStateMachine.__init__ after find_fsm_column returned: a registry
\* with a free lock, no states and no transitions.
NewMachine(column) ==
    [fsm_column |-> column, column_name |-> column,
     access_lock |-> NoThread,
     states |-> <<>>, transitions |-> <<>>]

\* self.states is a dict label -> FSMState; it is kept as a sequence of
\* <<label, state>> items in insertion order.
HasKey(states, label) == \E i \in 1..Len(states) : states[i][1] = label

Lookup(states, label) ==
    states[CHOOSE i \in 1..Len(states) : states[i][1] = label][2]

\* get_state(label): return self.states[label]; a missing key raises.
get_state_OrNone(states, label) ==
    IF HasKey(states, label)
    THEN [exc |-> "none", state |-> Lookup(states, label)]
    ELSE [exc |-> "none", state |-> <<>>]

get_state(states, label) ==
    IF HasKey(states, label)
    THEN [exc |-> "none", state |-> Lookup(states, label)]
    ELSE [exc |-> "KeyError", state |-> <<>>]

\* dict.setdefault(label, new): the dict afterwards.
setdefault_Overwrite(states, label, new) ==
    IF HasKey(states, label)
    THEN [i \in 1..Len(states) |->
            IF states[i][1] = label THEN <<label, new>> ELSE states[i]]
    ELSE Append(states, <<label, new>>)

setdefault(states, label, new) ==
    IF HasKey(states, label) THEN states ELSE Append(states, <<label, new>>)

\* register_transition: the states it registers, in order.
StatesToRegister_SourcesOnly(meta) ==
    SelectSeq(meta.sources, is_valid_literal_state)

StatesToRegister(meta) ==
    SelectSeq(meta.sources \o <<meta.target>>, is_valid_literal_state)

\* ------------------------------------------- transition.py: the two views
\* The attributes __init__ binds on each view.
ClassBoundAttrs == {"_sa_fsm_owner_cls", "state_machine", "transition"}

InstanceBoundAttrs ==
    {"state_machine", "transition", "_sa_fsm_owner_cls", "_sa_fsm_self"}

ClassBoundFsmTransition(m, tr) ==
    [kind |-> "class", attrs |-> ClassBoundAttrs,
     state_machine |-> m, transition |-> tr]

InstanceBoundFsmTransition(m, tr) ==
    [kind |-> "instance", attrs |-> InstanceBoundAttrs,
     state_machine |-> m, transition |-> tr]

\* Reading self.<name>: an attribute that was never bound raises.
HasAttr(view, name) == name \in view.attrs

\* The view __get__ returns to a thread that finished registering.
BoundView(t) ==
    IF th[t].inst
    THEN InstanceBoundFsmTransition(th[t].root, th[t].acc)
    ELSE ClassBoundFsmTransition(th[t].root, th[t].acc)

\* ------------------------------------------------ FsmTransition.__get__
\* try: fsm_machine_root = owner._sa_fsm_sqlalchemy_handle
GetHandle(t, d, inst) ==
    /\ th[t].pc = "idle"
    /\ nAccess < MaxAccess
    /\ nAccess' = nAccess + 1
    /\ th' = [th EXCEPT ![t] =
                [pc |-> IF handle = 0 THEN "construct" ELSE "register",
                 acc |-> nAccess + 1, decl |-> d, inst |-> inst,
                 root |-> handle, i |-> 1]]
    /\ UNCHANGED <<setup_errors, fsm_fields, raw, handle, machines, returned, calls>>
    /\ last' = NoCall

\* A SetupError raised by FiniteStateMachine(owner) inside the except block
\* is not caught: it leaves __get__, and the thread's access is over.
AfterSetupError_Swallowed(self) == [self EXCEPT !.pc = "store"]

AfterSetupError(self) == IdleThread

\* except AttributeError: fsm_machine_root = FiniteStateMachine(owner)
Construct(t) ==
    /\ th[t].pc = "construct"
    /\ LET col == find_fsm_column(fsm_fields)
       IN  IF col.exc # "none"
           THEN /\ th' = [th EXCEPT ![t] = AfterSetupError(th[t])]
                /\ last' = [NoCall EXCEPT !.op = "__get__",
                                          !.decl = th[t].decl,
                                          !.acc = th[t].acc,
                                          !.outcome = col.exc]
                /\ setup_errors' = setup_errors + 1
                /\ UNCHANGED machines
           ELSE /\ machines' = Append(machines, NewMachine(col.column))
                /\ th' = [th EXCEPT ![t].pc = "store",
                                    ![t].root = Len(machines) + 1]
                /\ last' = NoCall
                /\ UNCHANGED setup_errors
    /\ UNCHANGED <<fsm_fields, raw, handle, nAccess, returned, calls>>

\* owner._sa_fsm_sqlalchemy_handle = fsm_machine_root
StoreHandle(t) ==
    /\ th[t].pc = "store"
    /\ handle' = th[t].root
    /\ th' = [th EXCEPT ![t].pc = "register"]
    /\ UNCHANGED <<setup_errors, fsm_fields, raw, machines, nAccess, returned, calls>>
    /\ last' = NoCall

\* ------------------------------- FiniteStateMachine.register_transition
\* The states still to register by the thread's register_transition call.
Todo(t) ==
    LET all == StatesToRegister(Meta(th[t].decl))
    IN  SubSeq(all, th[t].i, Len(all))

\* register_state: with self.access_lock (acquire)
RegisterStateAcquire(t) ==
    /\ th[t].pc = "register"
    /\ Todo(t) # <<>>
    /\ machines[th[t].root].access_lock = NoThread
    /\ machines' = [machines EXCEPT ![th[t].root].access_lock = t]
    /\ th' = [th EXCEPT ![t].pc = "locked"]
    /\ UNCHANGED <<setup_errors, fsm_fields, raw, handle, nAccess, returned, calls>>
    /\ last' = NoCall

\* register_state: return self.states.setdefault(label, FSMState(self, label))
\* and the lock's release on leaving the with block.  The FSMState built by
\* the i-th call of access acc is the object <<acc, i>>.
RegisterStateBody(t) ==
    /\ th[t].pc = "locked"
    /\ LET m      == th[t].root
           label  == Head(Todo(t))
           new    == <<th[t].acc, th[t].i>>
           states == setdefault(machines[m].states, label, new)
       IN  /\ machines' = [machines EXCEPT ![m].states = states,
                                           ![m].access_lock = NoThread]
           /\ returned' = returned \cup
                  {<<m, label, Lookup(states, label), th[t].acc>>}
    /\ th' = [th EXCEPT ![t].pc = "register", ![t].i = th[t].i + 1]
    /\ UNCHANGED <<setup_errors, fsm_fields, raw, handle, nAccess, calls>>
    /\ last' = NoCall

\* list.append(transition): the list afterwards.
append_IfAbsent(transitions, transition) ==
    IF \E k \in 1..Len(transitions) : transitions[k].decl = transition.decl
    THEN transitions
    ELSE Append(transitions, transition)

append(transitions, transition) == Append(transitions, transition)

\* self.transitions.append(transition); return transition.  The transition
\* object built by access acc is the object acc.
AppendTransition(t) ==
    /\ th[t].pc = "register"
    /\ Todo(t) = <<>>
    /\ machines' = [machines EXCEPT ![th[t].root].transitions =
           append(@, [id |-> th[t].acc, decl |-> th[t].decl])]
    /\ th' = [th EXCEPT ![t].pc = "bound"]
    /\ UNCHANGED <<setup_errors, fsm_fields, raw, handle, nAccess, returned, calls>>
    /\ last' = NoCall

\* --------------------------------------------------- the bound transition
\* bound.py: the object the instance-bound view calls bound_meta.
\* transition_possible(): the current raw value is a declared source, or the
\* declared sources are the wildcard.
transition_possible_FirstSourceOnly(rawv, meta) ==
    meta.sources[1] = rawv \/ meta.sources[1] = WILDCARD

transition_possible(rawv, meta) ==
    \E i \in 1..Len(meta.sources) :
        meta.sources[i] = rawv \/ meta.sources[i] = WILDCARD

\* conditions_met(args, kwargs): every guard, in declaration order, returns
\* true for the call's arguments; `holds` is the set of guards that do.
RECURSIVE conditions_met(_, _)
conditions_met(conditions, holds) ==
    IF conditions = <<>> THEN TRUE
    ELSE IF Head(conditions) \notin holds THEN FALSE
    ELSE conditions_met(Tail(conditions), holds)

\* The guards conditions_met calls, in the order it calls them: it stops
\* after the first guard that returns false.
RECURSIVE conditions_evaluated_All(_, _)
conditions_evaluated_All(conditions, holds) ==
    IF conditions = <<>> THEN <<>>
    ELSE <<Head(conditions)>>
            \o conditions_evaluated_All(Tail(conditions), holds)

RECURSIVE conditions_evaluated(_, _)
conditions_evaluated(conditions, holds) ==
    IF conditions = <<>> THEN <<>>
    ELSE IF Head(conditions) \notin holds THEN <<Head(conditions)>>
    ELSE <<Head(conditions)>>
            \o conditions_evaluated(Tail(conditions), holds)

\* to_next_state(args, kwargs): the handler call.  A function handler is
\* the one callable; a class handler has one callable per source state and
\* the one for the current raw value is called.
HandlerFor(rawv, d) ==
    IF Meta(d).bound_cls = "BoundFSMClass"
    THEN [decl |-> d, callable |-> rawv]
    ELSE [decl |-> d, callable |-> "function"]

\* sql_equality_cache: column == target, for a defined target.
sql_equality_cache(column, target) ==
    IF target = "None"
    THEN [exc |-> "AssertionError", value |-> "none"]
    ELSE [exc |-> "none", value |-> column \o " == " \o target]

\* ------------------------------------------------ operations of the views
\* The record of a call of thread t that completes in this step.
Call(t, op, holds, value, outcome, result, rawAfter, callsAfter) ==
    [NoCall EXCEPT !.op = op, !.decl = th[t].decl, !.holds = holds,
                   !.value = value, !.outcome = outcome, !.result = result,
                   !.root = th[t].root, !.acc = th[t].acc,
                   !.rawBefore = raw, !.rawAfter = rawAfter,
                   !.callsBefore = Len(calls), !.callsAfter = callsAfter]

\* InstanceBoundFsmTransition.set(*args, **kwargs)
set(t, holds) ==
    /\ th[t].pc = "bound"
    /\ th[t].inst
    /\ LET view == BoundView(t)
           d    == th[t].decl
           meta == Meta(d)
       IN  IF ~HasAttr(view, "_sa_fsm_bound_meta")
              \/ ~HasAttr(view, "_sa_fsm_transition_fn")
           THEN /\ last' = Call(t, "set", holds, NoValue, "AttributeError",
                                "none", raw, Len(calls))
                /\ UNCHANGED <<raw, calls>>
           ELSE IF ~transition_possible(raw, meta)
           THEN /\ last' = Call(t, "set", holds, NoValue,
                                "InvalidSourceStateError", "none",
                                raw, Len(calls))
                /\ UNCHANGED <<raw, calls>>
           ELSE IF ~conditions_met(meta.conditions, holds)
           THEN /\ last' = [Call(t, "set", holds, NoValue,
                                 "PreconditionError", "none", raw, Len(calls))
                              EXCEPT !.evaluated =
                                 conditions_evaluated(meta.conditions, holds)]
                /\ UNCHANGED <<raw, calls>>
           ELSE /\ calls' = Append(calls, HandlerFor(raw, d))
                /\ raw' = meta.target
                /\ last' = [Call(t, "set", holds, NoValue, "returned",
                                 "result of " \o d, meta.target,
                                 Len(calls) + 1)
                              EXCEPT !.evaluated =
                                 conditions_evaluated(meta.conditions, holds)]
    /\ th' = [th EXCEPT ![t] = IdleThread]
    /\ UNCHANGED <<setup_errors, fsm_fields, handle, machines, nAccess, returned>>

\* InstanceBoundFsmTransition.can_proceed(*args, **kwargs)
can_proceed(t, holds) ==
    /\ th[t].pc = "bound"
    /\ th[t].inst
    /\ LET view == BoundView(t)
           meta == Meta(th[t].decl)
       IN  IF ~HasAttr(view, "_sa_fsm_bound_meta")
           THEN last' = Call(t, "can_proceed", holds, NoValue,
                             "AttributeError", "none", raw, Len(calls))
           ELSE last' = Call(t, "can_proceed", holds, NoValue, "returned",
                             IF transition_possible(raw, meta)
                                /\ conditions_met(meta.conditions, holds)
                             THEN "True" ELSE "False",
                             raw, Len(calls))
    /\ th' = [th EXCEPT ![t] = IdleThread]
    /\ UNCHANGED <<setup_errors, fsm_fields, raw, handle, machines, nAccess, returned,
                   calls>>

\* InstanceBoundFsmTransition.__call__()
InstanceCall(t) ==
    /\ th[t].pc = "bound"
    /\ th[t].inst
    /\ LET view   == BoundView(t)
           states == machines[view.state_machine].states
           meta   == Meta(th[t].decl)
       IN  IF ~HasAttr(view, "_sa_fsm_bound_meta")
           THEN last' = Call(t, "__call__", {}, NoValue, "AttributeError",
                             "none", raw, Len(calls))
           ELSE IF ~HasKey(states, raw)
           THEN last' = Call(t, "__call__", {}, NoValue, "KeyError",
                             "none", raw, Len(calls))
           ELSE last' = Call(t, "__call__", {}, NoValue, "returned",
                             IF Lookup(states, meta.target)
                                  = Lookup(states, raw)
                             THEN "True" ELSE "False",
                             raw, Len(calls))
    /\ th' = [th EXCEPT ![t] = IdleThread]
    /\ UNCHANGED <<setup_errors, fsm_fields, raw, handle, machines, nAccess, returned,
                   calls>>

\* ClassBoundFsmTransition.__call__(): the value or the exception.
ClassBoundCall(view, d) ==
    IF ~HasAttr(view, "_sa_fsm_sqla_handle") \/ ~HasAttr(view, "_sa_fsm_meta")
    THEN [exc |-> "AttributeError", value |-> "none"]
    ELSE sql_equality_cache("fsm_column", Meta(d).target)

ClassCall(t) ==
    /\ th[t].pc = "bound"
    /\ ~th[t].inst
    /\ LET out == ClassBoundCall(BoundView(t), th[t].decl)
       IN  last' = Call(t, "query", {}, NoValue,
                        IF out.exc = "none" THEN "returned" ELSE out.exc,
                        out.value, raw, Len(calls))
    /\ th' = [th EXCEPT ![t] = IdleThread]
    /\ UNCHANGED <<setup_errors, fsm_fields, raw, handle, machines, nAccess, returned,
                   calls>>

\* ClassBoundFsmTransition.is_(value)
is_(t, value) ==
    /\ th[t].pc = "bound"
    /\ ~th[t].inst
    /\ IF value.type = "bool"
       THEN LET out == ClassBoundCall(BoundView(t), th[t].decl)
            IN  last' = Call(t, "is_", {}, value,
                             IF out.exc = "none" THEN "returned" ELSE out.exc,
                             IF out.exc = "none"
                             THEN "(" \o out.value \o ") IS " \o value.repr
                             ELSE "none",
                             raw, Len(calls))
       ELSE last' = [Call(t, "is_", {}, value, "returned", "False",
                          raw, Len(calls))
                       EXCEPT !.warnings =
                          <<"Unexpected is_ argument: " \o value.repr>>]
    /\ th' = [th EXCEPT ![t] = IdleThread]
    /\ UNCHANGED <<setup_errors, fsm_fields, raw, handle, machines, nAccess, returned,
                   calls>>

\* view.state_machine.get_state(label): FiniteStateMachine.get_state on the
\* registry the view was built with (through cls_fsm for an instance view).
GetState(t, label) ==
    /\ th[t].pc = "bound"
    /\ LET states == machines[BoundView(t).state_machine].states
           out    == get_state(states, label)
       IN  last' = [Call(t, "get_state", {}, NoValue,
                         IF out.exc = "none" THEN "returned" ELSE out.exc,
                         "none", raw, Len(calls))
                      EXCEPT !.label = label, !.state = out.state,
                             !.statesBefore = states, !.statesAfter = states]
    /\ th' = [th EXCEPT ![t] = IdleThread]
    /\ UNCHANGED <<setup_errors, fsm_fields, raw, handle, machines, nAccess,
                   returned, calls>>

\* InstanceBoundStateMachine.current_state, read through the instance
\* view's state_machine: get_state of the record's current raw value.
CurrentState(t) ==
    /\ th[t].pc = "bound"
    /\ th[t].inst
    /\ LET states            == machines[BoundView(t).state_machine].states
           current_raw_value == raw
           out               == get_state(states, current_raw_value)
       IN  last' = [Call(t, "current_state", {}, NoValue,
                         IF out.exc = "none" THEN "returned" ELSE out.exc,
                         "none", raw, Len(calls))
                      EXCEPT !.label = current_raw_value, !.state = out.state,
                             !.statesBefore = states, !.statesAfter = states]
    /\ th' = [th EXCEPT ![t] = IdleThread]
    /\ UNCHANGED <<setup_errors, fsm_fields, raw, handle, machines, nAccess,
                   returned, calls>>

\* Labels asked of get_state; "legacy" is named by no declaration.
AskedLabels == {"draft", "review", "legacy"}

\* -------------------------------------------------------- specification
Next ==
    \E t \in Threads :
        \/ \E d \in DeclNames, inst \in BOOLEAN : GetHandle(t, d, inst)
        \/ Construct(t)
        \/ StoreHandle(t)
        \/ RegisterStateAcquire(t)
        \/ RegisterStateBody(t)
        \/ AppendTransition(t)
        \/ \E holds \in GuardOutcomes : set(t, holds)
        \/ \E holds \in GuardOutcomes : can_proceed(t, holds)
        \/ InstanceCall(t)
        \/ ClassCall(t)
        \/ \E value \in IsArgs : is_(t, value)
        \/ \E label \in AskedLabels : GetState(t, label)
        \/ CurrentState(t)

Spec == Init /\ [][Next]_vars

\* ------------------------------------------- the bound transition alone
\* The operations of bound_meta called directly on a record of a type whose
\* registry is set up, outside the views.
BoundInit ==
    /\ fsm_fields = 1
    /\ raw \in Labels \cup {"legacy"}
    /\ handle = 0
    /\ machines = <<>>
    /\ th = [t \in Threads |-> IdleThread]
    /\ nAccess = 0
    /\ returned = {}
    /\ calls = <<>>
    /\ setup_errors = 0
    /\ last = NoCall

BoundCall(op, d, holds, outcome, result, rawAfter, callsAfter) ==
    [NoCall EXCEPT !.op = op, !.decl = d, !.holds = holds,
                   !.outcome = outcome, !.result = result,
                   !.rawBefore = raw, !.rawAfter = rawAfter,
                   !.callsBefore = Len(calls), !.callsAfter = callsAfter]

bound_transition_possible(d) ==
    /\ last' = BoundCall("transition_possible", d, {}, "returned",
                         IF transition_possible(raw, Meta(d))
                         THEN "True" ELSE "False",
                         raw, Len(calls))
    /\ UNCHANGED <<setup_errors, fsm_fields, raw, handle, machines, th, nAccess, returned,
                   calls>>

bound_conditions_met(d, holds) ==
    /\ last' = [BoundCall("conditions_met", d, holds, "returned",
                          IF conditions_met(Meta(d).conditions, holds)
                          THEN "True" ELSE "False",
                          raw, Len(calls))
                   EXCEPT !.evaluated =
                      conditions_evaluated(Meta(d).conditions, holds)]
    /\ UNCHANGED <<setup_errors, fsm_fields, raw, handle, machines, th, nAccess, returned,
                   calls>>

bound_to_next_state(d) ==
    /\ Len(calls) < MaxCalls
    /\ calls' = Append(calls, HandlerFor(raw, d))
    /\ raw' = Meta(d).target
    /\ last' = BoundCall("to_next_state", d, {}, "returned",
                         "result of " \o d, Meta(d).target, Len(calls) + 1)
    /\ UNCHANGED <<setup_errors, fsm_fields, handle, machines, th, nAccess, returned>>

BoundNext ==
    \E d \in DeclNames :
        \/ bound_transition_possible(d)
        \/ \E holds \in GuardOutcomes : bound_conditions_met(d, holds)
        \/ bound_to_next_state(d)

BoundSpec == BoundInit /\ [][BoundNext]_vars

\* ------------------------------------------------------------ properties
\* What the declarations say, read off the metadata.
Sources(d) == Range(Meta(d).sources)

SourceIsLegal(rawv, d) == rawv \in Sources(d) \/ WILDCARD \in Sources(d)

AllGuardsHold(d, holds) == Range(Meta(d).conditions) \subseteq holds

\* C1: set from a raw value that is no declared source (sources not the
\* wildcard) fails with InvalidSourceStateError, invokes no handler and
\* leaves the record's raw value as it was.
C1_InvalidSourceRaises ==
    (last.op = "set" /\ ~SourceIsLegal(last.rawBefore, last.decl))
        => /\ last.outcome = "InvalidSourceStateError"
           /\ last.callsAfter = last.callsBefore
           /\ last.rawAfter = last.rawBefore

\* C2: set from a legal source with some guard returning false fails with
\* PreconditionError, invokes no handler and leaves the raw value as it was.
C2_UnmetConditionRaises ==
    (/\ last.op = "set"
     /\ SourceIsLegal(last.rawBefore, last.decl)
     /\ ~AllGuardsHold(last.decl, last.holds))
        => /\ last.outcome = "PreconditionError"
           /\ last.callsAfter = last.callsBefore
           /\ last.rawAfter = last.rawBefore

\* C3: set from a legal source with every guard true makes exactly one
\* handler call, the single callable of a function handler or the callable
\* a class handler has for the current source state, and returns what that
\* call returned.
C3_ExactlyOneHandlerCall ==
    (/\ last.op = "set"
     /\ SourceIsLegal(last.rawBefore, last.decl)
     /\ AllGuardsHold(last.decl, last.holds))
        => /\ last.outcome = "returned"
           /\ last.callsAfter = last.callsBefore + 1
           /\ last.callsAfter <= Len(calls)
           /\ calls[last.callsAfter].decl = last.decl
           /\ calls[last.callsAfter].callable =
                 IF Meta(last.decl).bound_cls = "BoundFSMClass"
                 THEN last.rawBefore ELSE "function"
           /\ last.result = "result of " \o last.decl

\* C4: can_proceed returns transition_possible and conditions_met, whatever
\* the source and the guards are, calls no handler and changes nothing.
C4_CanProceedIsConjunction ==
    last.op = "can_proceed"
        => /\ last.outcome = "returned"
           /\ last.result =
                 IF SourceIsLegal(last.rawBefore, last.decl)
                    /\ AllGuardsHold(last.decl, last.holds)
                 THEN "True" ELSE "False"
           /\ last.callsAfter = last.callsBefore
           /\ last.rawAfter = last.rawBefore

\* C5: transition_possible is true exactly when the raw value is one of the
\* declared sources or the sources are the wildcard: false outside a
\* multi-source set, true for every raw value under the wildcard.
C5_TransitionPossible ==
    last.op = "transition_possible"
        => /\ last.result = "True" <=> SourceIsLegal(last.rawBefore, last.decl)
           /\ (last.decl = "publish" /\ last.rawBefore \notin {"draft", "review"})
                 => last.result = "False"
           /\ last.decl = "archive" => last.result = "True"

C5_Witness ==
    /\ last.op = "transition_possible"
    /\ last.decl = "publish"
    /\ last.rawBefore = "review"
    /\ last.result = "True"

\* C6: every register_state call for one label on one registry returns the
\* same State object, whichever thread makes it and in whichever order, and
\* the registry's states never hold two objects for one label.
C6_RegisterStateIdempotent ==
    /\ \A x \in returned, y \in returned :
          (x[1] = y[1] /\ x[2] = y[2]) => x[3] = y[3]
    /\ \A x \in returned : Lookup(machines[x[1]].states, x[2]) = x[3]
    /\ \A m \in 1..Len(machines) :
          \A i \in 1..Len(machines[m].states), j \in 1..Len(machines[m].states) :
              machines[m].states[i][1] = machines[m].states[j][1] => i = j

\* Two accesses, both still inside register_transition, have each got a
\* State for the same label from the same registry.
C6_Witness ==
    \E t1 \in Threads, t2 \in Threads :
        /\ t1 # t2
        /\ th[t1].pc \in {"register", "locked"}
        /\ th[t2].pc \in {"register", "locked"}
        /\ th[t1].root = th[t2].root
        /\ \E x \in returned, y \in returned :
              /\ x[1] = y[1] /\ x[2] = y[2]
              /\ x[4] = th[t1].acc /\ y[4] = th[t2].acc

\* C7: at most one registry is ever built for the record type, and every
\* access registers in the registry stored on the type.
C7_SingleRegistry ==
    /\ Len(machines) <= 1
    /\ \A t \in Threads :
          th[t].pc \in {"register", "locked", "bound"} => th[t].root = handle

\* C8: the first access builds a registry when the type has exactly one
\* FSMField column, and fails with SetupError when it has none or several.
C8_SetupByFieldCount ==
    /\ fsm_fields = 1 =>
          /\ last.outcome # "SetupError"
          /\ \A t \in Threads :
                th[t].pc \notin {"idle", "construct"}
                    => th[t].root \in 1..Len(machines)
    /\ fsm_fields # 1 =>
          /\ machines = <<>>
          /\ handle = 0
          /\ \A t \in Threads : th[t].pc \in {"idle", "construct"}
          /\ last.op # "none"
                => last.op = "__get__" /\ last.outcome = "SetupError"

C8_Witness ==
    /\ fsm_fields > 1
    /\ last.op = "__get__"
    /\ last.outcome = "SetupError"

\* C9: every literal label that is a source or the target of a transition
\* in a registry's transition list is a key of that registry's states.
C9_TransitionStatesRegistered ==
    \A m \in 1..Len(machines) :
        \A k \in 1..Len(machines[m].transitions) :
            LET d == machines[m].transitions[k].decl
            IN  \A label \in Sources(d) \cup {Meta(d).target} :
                    label # WILDCARD => HasKey(machines[m].states, label)

\* A transition is in the list while another thread is in the middle of
\* registering the states of its own.
C9_Witness ==
    \E m \in 1..Len(machines), t \in Threads :
        /\ Len(machines[m].transitions) > 0
        /\ th[t].root = m
        /\ th[t].pc = "locked"
        /\ machines[m].transitions[1].decl = "publish"

\* C10: is_ never raises: a boolean argument gives the predicate's own
\* comparison with it, any other argument a warning and False.
C10_IsNeverRaises ==
    last.op = "is_"
        => /\ last.outcome = "returned"
           /\ last.value.type = "bool" =>
                 last.result = "(fsm_column == " \o Meta(last.decl).target
                                 \o ") IS " \o last.value.repr
           /\ last.value.type # "bool" =>
                 /\ last.result = "False"
                 /\ last.warnings # <<>>

\* C11: the instance-bound view called as a function answers whether the
\* transition's target is the record's current state: true for a transition
\* whose target is the raw value, false for any other target.
C11_MatchesCurrentState ==
    (last.op = "__call__" /\ HasKey(machines[last.root].states, last.rawBefore))
        => /\ last.outcome = "returned"
           /\ last.result = IF Meta(last.decl).target = last.rawBefore
                            THEN "True" ELSE "False"

\* C12: a declaration has one transition object: every access of the same
\* attribute, in one registry, gets a view over that same object.
TransitionObjects(m, d) ==
    {machines[m].transitions[k].id :
        k \in {j \in 1..Len(machines[m].transitions) :
                  machines[m].transitions[j].decl = d}}

C12_OneTransitionPerDeclaration ==
    \A m \in 1..Len(machines), d \in DeclNames :
        Cardinality(TransitionObjects(m, d)) <= 1

\* C13: set checks the source state first, then the guards, then calls the
\* handler: from an illegal source with a failing guard the error is
\* InvalidSourceStateError and no guard was evaluated, and a handler is
\* called only when both checks passed.
C13_SourceCheckedFirst ==
    /\ (/\ last.op = "set"
        /\ ~SourceIsLegal(last.rawBefore, last.decl)
        /\ ~AllGuardsHold(last.decl, last.holds))
          => /\ last.outcome = "InvalidSourceStateError"
             /\ last.evaluated = <<>>
    /\ (last.op = "set" /\ last.callsAfter > last.callsBefore)
          => /\ SourceIsLegal(last.rawBefore, last.decl)
             /\ AllGuardsHold(last.decl, last.holds)

\* C14: set calls on one record are not serialised: a call made from a legal
\* source with every guard true, while another thread holds a view of the
\* same record, passes validation and invokes its handler.
C14_ConcurrentSetInvokesHandler ==
    (/\ last.op = "set"
     /\ SourceIsLegal(last.rawBefore, last.decl)
     /\ AllGuardsHold(last.decl, last.holds)
     /\ \E t \in Threads : th[t].pc = "bound" /\ th[t].inst)
        => /\ last.outcome = "returned"
           /\ last.callsAfter = last.callsBefore + 1

\* C15: every register_transition call appends one entry of its own and
\* returns it: a registry's list holds one entry per completed call, in
\* every interleaving, and a call's states were registered before its entry
\* was appended.
RegisteringAccesses ==
    {th[t].acc : t \in {u \in Threads : th[u].pc \in {"register", "locked"}}}

\* The accesses whose register_transition call on registry m has returned.
CompletedOn(m) ==
    {x[4] : x \in {y \in returned : y[1] = m}} \ RegisteringAccesses

LiteralLabels(d) == (Sources(d) \cup {Meta(d).target}) \ {WILDCARD}

C15_OneAppendPerCall ==
    \A m \in 1..Len(machines) :
        LET list == machines[m].transitions
        IN  /\ Len(list) = Cardinality(CompletedOn(m))
            /\ {list[k].id : k \in 1..Len(list)} = CompletedOn(m)
            /\ \A k \in 1..Len(list) :
                  \A label \in LiteralLabels(list[k].decl) :
                      \E x \in returned :
                          x[1] = m /\ x[2] = label /\ x[4] = list[k].id
            /\ \A t \in Threads :
                  (th[t].pc = "bound" /\ th[t].root = m)
                      => \E k \in 1..Len(list) : list[k].id = th[t].acc

\* Two calls have completed on one registry, the one that started later
\* having appended first.
C15_Witness ==
    \E m \in 1..Len(machines) :
        /\ Len(machines[m].transitions) = 2
        /\ machines[m].transitions[1].id > machines[m].transitions[2].id

\* C16: resolving a label that is not registered fails with a key error
\* and leaves the states as they were: get_state for every such label, and
\* current_state (and with it the view called as a function) whenever the
\* record's raw value is not a registered label; none of them returns a
\* default.
C16_UnregisteredLabelFails ==
    /\ (last.op \in {"get_state", "current_state"}
          /\ ~HasKey(last.statesBefore, last.label))
          => /\ last.outcome = "KeyError"
             /\ last.state = <<>>
             /\ last.statesAfter = last.statesBefore
             /\ machines[last.root].states = last.statesBefore
    /\ (last.op = "current_state") => last.label = last.rawBefore
    /\ (last.op = "__call__"
          /\ ~HasKey(machines[last.root].states, last.rawBefore))
          => last.outcome # "returned"

\* current_state of a record whose raw value no accessed transition names.
C16_Witness ==
    /\ last.op = "current_state"
    /\ last.rawBefore = "review"
    /\ last.outcome = "KeyError"
    /\ Len(machines[last.root].states) > 0

\* C17: a registry only grows: each step leaves every registry in place and
\* keeps its states and its transition list as a prefix of the new ones, so
\* a get_state that succeeds before the step succeeds after it with the
\* same State object.
IsPrefix(s, t) ==
    /\ Len(s) <= Len(t)
    /\ \A i \in 1..Len(s) : s[i] = t[i]

C17_Step ==
    /\ Len(machines) <= Len(machines')
    /\ \A m \in 1..Len(machines) :
          /\ IsPrefix(machines[m].states, machines'[m].states)
          /\ IsPrefix(machines[m].transitions, machines'[m].transitions)
          /\ \A label \in Labels :
                get_state(machines[m].states, label).exc = "none"
                    => get_state(machines'[m].states, label)
                          = get_state(machines[m].states, label)

C17_RegistryOnlyGrows == [][C17_Step]_vars

\* A lookup succeeds on a registry that has since taken a second
\* transition, and returns the object first stored for the label.
C17_Witness ==
    /\ last.op = "get_state"
    /\ last.outcome = "returned"
    /\ Len(machines[last.root].transitions) = 2
    /\ last.state = machines[last.root].states[1][2]

\* C18: the states of the type's registry are exactly the literal labels of
\* the transitions accessed so far on the type: every label of a completed
\* access is a key, every key is a label of an access completed or under
\* way, the wildcard is never a key, and current_state fails exactly while
\* no accessed transition names the record's raw value.
Keys(states) == {states[i][1] : i \in 1..Len(states)}

CompletedDecls ==
    UNION {{machines[m].transitions[k].decl :
               k \in 1..Len(machines[m].transitions)} :
           m \in 1..Len(machines)}

UnderWayDecls ==
    {th[t].decl : t \in {u \in Threads : th[u].pc \in {"register", "locked"}}}

LabelsOf(decls) == UNION {LiteralLabels(d) : d \in decls}

C18_StatesAreAccessedLabels ==
    /\ handle # 0 =>
          LET keys == Keys(machines[handle].states)
          IN  /\ LabelsOf(CompletedDecls) \subseteq keys
              /\ keys \subseteq LabelsOf(CompletedDecls \cup UnderWayDecls)
              /\ WILDCARD \notin keys
    /\ last.op = "current_state" =>
          /\ last.rawBefore \in LabelsOf(CompletedDecls)
                => last.outcome = "returned"
          /\ last.rawBefore \notin LabelsOf(CompletedDecls \cup UnderWayDecls)
                => last.outcome = "KeyError"

\* The same statement for the runs in which one registry was built.
C18_WithOneRegistry == Len(machines) <= 1 => C18_StatesAreAccessedLabels

\* C19: a SetupError leaves nothing behind: after one, no registry is
\* stored on the type, no registry, state or transition exists, and every
\* access made so far has either raised SetupError or is about to build
\* the registry again, which raises again.
C19_FailedSetupLeavesNothing ==
    /\ setup_errors > 0 =>
          /\ handle = 0
          /\ machines = <<>>
          /\ returned = {}
          /\ \A t \in Threads : th[t].pc \in {"idle", "construct"}
          /\ nAccess = setup_errors
                + Cardinality({t \in Threads : th[t].pc = "construct"})
          /\ find_fsm_column(fsm_fields).exc = "SetupError"
    /\ last.op = "__get__" =>
          /\ last.outcome = "SetupError"
          /\ setup_errors > 0

\* A second access, made after the first one failed, has failed too.
C19_Witness ==
    /\ setup_errors = 2
    /\ last.op = "__get__"
    /\ last.outcome = "SetupError"
    /\ last.acc = 2

\* C20: conditions_met calls the guards in declaration order, returns true
\* only when every guard returns true, and stops at the first guard that
\* returns false: the guards called are a prefix of the declared ones, all
\* but the last of them true, and the last one false when the answer is
\* false.
C20_GuardsShortCircuit ==
    last.op = "conditions_met" =>
        LET conds == Meta(last.decl).conditions
            ev    == last.evaluated
        IN  /\ IsPrefix(ev, conds)
            /\ last.result = "True" <=> AllGuardsHold(last.decl, last.holds)
            /\ \A i \in 1..(Len(ev) - 1) : ev[i] \in last.holds
            /\ last.result = "True" => ev = conds
            /\ last.result = "False" =>
                  /\ ev # <<>>
                  /\ ev[Len(ev)] \notin last.holds

\* The first of two guards fails and the second, which would pass, is not
\* called.
C20_Witness ==
    /\ last.op = "conditions_met"
    /\ last.decl = "publish"
    /\ last.holds = {"is_reviewed"}
    /\ last.evaluated = <<"is_owner">>
    /\ last.result = "False"

====
